---- MODULE Spec2Model ----
(***************************************************************************)
(* Model of the scrape endpoint, src/src/routes/scrape.ts: the request     *)
(* handler, attemptScrape, the retry loop, the deadline timer and the      *)
(* Promise.race that decides the response.                                 *)
(*                                                                         *)
(* One step of the model is one run-to-completion turn of the event loop:  *)
(* the code between two awaits.  Each request has two flows, the handler   *)
(* (hpc) and the retry loop with its current attempt (lpc); they are       *)
(* joined by Promise.race.  Time is counted in milliseconds and advances   *)
(* by TickMs; a timer or a navigation timeout that is due blocks the       *)
(* clock until it has been handled.                                        *)
(***************************************************************************)
EXTENDS Integers, Sequences, FiniteSets, TLC

\* ---------------------------------------------------------------- constants
GLOBAL_TIMEOUT_MS == 20000
NAVIGATION_TIMEOUT_MS == 15000
MAX_ATTEMPTS == 2

\* granularity of the clock
TickMs == 2500

\* the time spent awaiting import('playwright') is counted up to this much
MaxImportMs == 2500

\* request identities; a specification chooses how many of them arrive
Reqs == {1, 2}

\* ------------------------------------------------------------------- values
Null == "<null>"

\* An Error is its message, a sequence of words; NullError is the value null
\* of `let lastError: any = null`.
Err(m) == [null |-> FALSE, message |-> m]
NullError == [null |-> TRUE, message |-> <<>>]

\* the errors the engine raises, by operation
LaunchError == Err(<<"browserType.launch:", "Executable", "missing">>)
ContextError == Err(<<"browser.newContext:", "Target", "closed">>)
PageError == Err(<<"context.newPage:", "Target", "closed">>)
NavTimeoutError == Err(<<"page.goto:", "Timeout", "15000ms", "exceeded.">>)
NavLoadError == Err(<<"page.goto:", "net::ERR_CONNECTION_REFUSED">>)
TitleError == Err(<<"page.title:", "Execution", "context", "destroyed">>)
CloseError == Err(<<"browser.close:", "Connection", "lost">>)

\* new Error('Timeout') of the deadline timer
TimeoutError == Err(<<"Timeout">>)

\* new Error('Unknown error')
UnknownError == Err(<<"Unknown", "error">>)

\* String.prototype.includes, on messages as word sequences
Includes(msg, word) ==
  \E i \in 1..Len(msg) : msg[i] = word

\* the values a page can yield
Titles == {"", "Example Domain", "Other"}
Metas == {Null, "desc"}
Headings == {"", "Heading"}

\* the url query parameter: missing, or a string with what parsing finds
Urls == { [present |-> FALSE, parses |-> FALSE, scheme |-> ""],
          [present |-> TRUE, parses |-> FALSE, scheme |-> ""],
          [present |-> TRUE, parses |-> TRUE, scheme |-> "ftp"],
          [present |-> TRUE, parses |-> TRUE, scheme |-> "http"],
          [present |-> TRUE, parses |-> TRUE, scheme |-> "https"] }

isValidHttpUrl(u) ==
  /\ u.present
  /\ u.parses
  /\ u.scheme \in {"http", "https"}

NoUrl == [present |-> FALSE, parses |-> FALSE, scheme |-> ""]

NoResult == [title |-> Null, metaDescription |-> Null, h1 |-> Null, status |-> 0]

\* an HTTP response: status and JSON body (absent fields are "" / <<>> /
\* NoResult)
Response(st, error, details, data) ==
  [status |-> st, error |-> error, details |-> details, data |-> data]

\* ---------------------------------------------------------------- variables
VARIABLES
  incoming,         \* requests not yet received
  hpc,              \* handler position
  lpc,              \* retry loop / attemptScrape position
  url,              \* req.query.url
  attempt,          \* loop variable `attempt`
  lastError,        \* `lastError`
  caught,           \* `err` of attemptScrape's catch clause
  title,            \* attemptScrape locals
  metaDescription,
  h1,
  overall,          \* overallPromise
  timerState,       \* timeoutPromise / setTimeout
  timerLeft,        \* ms until the deadline timer is due
  navLeft,          \* ms until page.goto times out
  winner,           \* which promise settled Promise.race
  responses,        \* responses written to res
  open,             \* attempts whose browser is open
  launched,         \* browsers launched
  errs,             \* errors caught by the retry loop, in order
  elapsed,          \* ms from the handler's start to its response
  overhead          \* ms attempt 1 has spent outside page.goto

vars == <<incoming, hpc, lpc, url, attempt, lastError, caught, title,
          metaDescription, h1, overall, timerState, timerLeft, navLeft,
          winner, responses, open, launched, errs, elapsed, overhead>>

Pending == [state |-> "pending", err |-> NullError, result |-> NoResult]

InitWith(arrivals) ==
  /\ incoming = arrivals
  /\ hpc = [r \in Reqs |-> "idle"]
  /\ lpc = [r \in Reqs |-> "none"]
  /\ url = [r \in Reqs |-> NoUrl]
  /\ attempt = [r \in Reqs |-> 0]
  /\ lastError = [r \in Reqs |-> NullError]
  /\ caught = [r \in Reqs |-> NullError]
  /\ title = [r \in Reqs |-> Null]
  /\ metaDescription = [r \in Reqs |-> Null]
  /\ h1 = [r \in Reqs |-> Null]
  /\ overall = [r \in Reqs |-> Pending]
  /\ timerState = [r \in Reqs |-> "none"]
  /\ timerLeft = [r \in Reqs |-> 0]
  /\ navLeft = [r \in Reqs |-> 0]
  /\ winner = [r \in Reqs |-> "none"]
  /\ responses = [r \in Reqs |-> <<>>]
  /\ open = [r \in Reqs |-> {}]
  /\ launched = [r \in Reqs |-> 0]
  /\ errs = [r \in Reqs |-> <<>>]
  /\ elapsed = [r \in Reqs |-> 0]
  /\ overhead = [r \in Reqs |-> 0]

Init == InitWith({1})

\* ------------------------------------------------- handler: outcome mapping
\* `err.message || 'Scraping failed'`
MessageOf(err) ==
  IF err.message = <<>> THEN <<"Scraping", "failed">> ELSE err.message

\* res.status(200).json(result)
MapSuccess(result) == Response(200, "", <<>>, result)

\* MapFailure looking for the lower-case word
MapFailureLowerCase(err) ==
  IF Includes(MessageOf(err), "timeout")
    THEN Response(504, "Timeout", <<>>, NoResult)
    ELSE Response(500, "Scraping failed", MessageOf(err), NoResult)

\* the catch clause of the handler
MapFailure(err) ==
  IF Includes(MessageOf(err), "Timeout")
    THEN Response(504, "Timeout", <<>>, NoResult)
    ELSE Response(500, "Scraping failed", MessageOf(err), NoResult)

\* the response of Express' default error handler, when a rejected handler
\* promise is forwarded to it
FrameworkError == Response(500, "Internal Server Error", <<>>, NoResult)

\* Promise.race: the first promise to settle settles the race
FirstSettled(w, who) == IF w = "none" THEN who ELSE w

\* RaceResponses writing on every settlement
RaceResponsesEverySettle(w, sent, resp) == Append(sent, resp)

\* the handler resumes, and writes a response, only when the race settles
RaceResponses(w, sent, resp) == IF w = "none" THEN Append(sent, resp) ELSE sent

RaceSettles(r, who, resp) ==
  /\ winner' = [winner EXCEPT ![r] = FirstSettled(@, who)]
  /\ responses' = [responses EXCEPT ![r] = RaceResponses(winner[r], @, resp)]
  /\ hpc' = [hpc EXCEPT ![r] = IF winner[r] = "none" THEN "done" ELSE @]

\* ------------------------------------------------------------- retry loop
\* CatchLastError keeping the first error
CatchLastErrorKeepFirst(old, e) == IF old.null THEN e ELSE old

\* `lastError = err`
CatchLastError(old, e) == e

\* `lastError || new Error('Unknown error')`
RejectReason(le) == IF le.null THEN UnknownError ELSE le

\* Resolve without the `return`: the loop goes on to the next attempt
ResolveNoReturn(r, result) ==
  /\ overall' = [overall EXCEPT ![r] =
                   [state |-> "resolved", err |-> NullError, result |-> result]]
  /\ lpc' = [lpc EXCEPT ![r] =
               IF attempt[r] + 1 <= MAX_ATTEMPTS THEN "launch" ELSE "settled"]
  /\ attempt' = [attempt EXCEPT ![r] = @ + 1]
  /\ RaceSettles(r, "overall", MapSuccess(result))
  /\ UNCHANGED <<lastError, errs>>

\* `return resolve(result)`
Resolve(r, result) ==
  /\ overall' = [overall EXCEPT ![r] =
                   [state |-> "resolved", err |-> NullError, result |-> result]]
  /\ lpc' = [lpc EXCEPT ![r] = "settled"]
  /\ RaceSettles(r, "overall", MapSuccess(result))
  /\ UNCHANGED <<attempt, lastError, errs>>

\* attemptScrape(attempt) runs up to its first await, chromium.launch
StartAttempt(r) ==
  /\ lpc' = [lpc EXCEPT ![r] = "launch"]
  /\ caught' = [caught EXCEPT ![r] = NullError]
  /\ title' = [title EXCEPT ![r] = Null]
  /\ metaDescription' = [metaDescription EXCEPT ![r] = Null]
  /\ h1' = [h1 EXCEPT ![r] = Null]

\* AttemptThrows made deadline-aware: no new attempt once the timer fired
AttemptThrowsDeadlineAware(r, e) ==
  /\ lastError' = [lastError EXCEPT ![r] = CatchLastError(@, e)]
  /\ errs' = [errs EXCEPT ![r] = Append(@, e)]
  /\ attempt' = [attempt EXCEPT ![r] = @ + 1]
  /\ IF attempt[r] + 1 <= MAX_ATTEMPTS /\ timerState[r] # "fired"
       THEN /\ StartAttempt(r)
            /\ UNCHANGED <<overall, winner, responses, hpc>>
       ELSE /\ overall' = [overall EXCEPT ![r] =
                   [state |-> "rejected",
                    err |-> RejectReason(lastError'[r]),
                    result |-> NoResult]]
            /\ lpc' = [lpc EXCEPT ![r] = "settled"]
            /\ RaceSettles(r, "overall",
                           MapFailure(RejectReason(lastError'[r])))
            /\ UNCHANGED <<caught, title, metaDescription, h1>>

\* attemptScrape throws e: the loop's catch, `attempt++`, and then either the
\* next attempt or `reject(...)`
AttemptThrows(r, e) ==
  /\ lastError' = [lastError EXCEPT ![r] = CatchLastError(@, e)]
  /\ errs' = [errs EXCEPT ![r] = Append(@, e)]
  /\ attempt' = [attempt EXCEPT ![r] = @ + 1]
  /\ IF attempt[r] + 1 <= MAX_ATTEMPTS
       THEN /\ StartAttempt(r)
            /\ UNCHANGED <<overall, winner, responses, hpc>>
       ELSE /\ overall' = [overall EXCEPT ![r] =
                   [state |-> "rejected",
                    err |-> RejectReason(lastError'[r]),
                    result |-> NoResult]]
            /\ lpc' = [lpc EXCEPT ![r] = "settled"]
            /\ RaceSettles(r, "overall",
                           MapFailure(RejectReason(lastError'[r])))
            /\ UNCHANGED <<caught, title, metaDescription, h1>>

\* ---------------------------------------------------------------- handler
\* Receive without the `return` of the 400 branch
ReceiveNoReturn(r, u) ==
  /\ r \in incoming
  /\ hpc[r] = "idle"
  /\ incoming' = incoming \ {r}
  /\ url' = [url EXCEPT ![r] = u]
  /\ responses' = [responses EXCEPT ![r] =
                     IF ~isValidHttpUrl(u)
                       THEN Append(@, Response(400, "Invalid URL", <<>>, NoResult))
                       ELSE @]
  /\ hpc' = [hpc EXCEPT ![r] = "import"]
  /\ UNCHANGED <<lpc, attempt, lastError, caught, title, metaDescription, h1,
                 overall, timerState, timerLeft, navLeft, winner, open,
                 launched, errs,
                 elapsed, overhead>>

\* the request arrives; an invalid url is answered at once
Receive(r, u) ==
  /\ r \in incoming
  /\ hpc[r] = "idle"
  /\ incoming' = incoming \ {r}
  /\ url' = [url EXCEPT ![r] = u]
  /\ IF ~isValidHttpUrl(u)
       THEN /\ responses' = [responses EXCEPT ![r] =
                               Append(@, Response(400, "Invalid URL", <<>>, NoResult))]
            /\ hpc' = [hpc EXCEPT ![r] = "done"]
       ELSE /\ hpc' = [hpc EXCEPT ![r] = "import"]
            /\ UNCHANGED responses
  /\ UNCHANGED <<lpc, attempt, lastError, caught, title, metaDescription, h1,
                 overall, timerState, timerLeft, navLeft, winner, open,
                 launched, errs,
                 elapsed, overhead>>

\* import('playwright') resolves: the executor of overallPromise starts
\* attempt 1, setTimeout arms the deadline and the handler awaits the race
ImportOK(r) ==
  /\ hpc[r] = "import"
  /\ hpc' = [hpc EXCEPT ![r] = "race"]
  /\ attempt' = [attempt EXCEPT ![r] = 1]
  /\ StartAttempt(r)
  /\ timerState' = [timerState EXCEPT ![r] = "pending"]
  /\ timerLeft' = [timerLeft EXCEPT ![r] = GLOBAL_TIMEOUT_MS]
  /\ UNCHANGED <<incoming, url, lastError, overall, navLeft, winner,
                 responses, open, launched, errs,
                 elapsed, overhead>>

\* import('playwright') rejects outside any try: the handler's promise
\* rejects.  A router that ignores the returned promise leaves the request
\* unanswered ...
ImportFailUnhandled(r) ==
  /\ hpc[r] = "import"
  /\ hpc' = [hpc EXCEPT ![r] = "crashed"]
  /\ UNCHANGED <<incoming, lpc, url, attempt, lastError, caught, title,
                 metaDescription, h1, overall, timerState, timerLeft, navLeft,
                 winner, responses, open, launched, errs,
                 elapsed, overhead>>

\* ... and one that forwards rejections answers with its default error page
ImportFailForwarded(r) ==
  /\ hpc[r] = "import"
  /\ hpc' = [hpc EXCEPT ![r] = "done"]
  /\ responses' = [responses EXCEPT ![r] = Append(@, FrameworkError)]
  /\ UNCHANGED <<incoming, lpc, url, attempt, lastError, caught, title,
                 metaDescription, h1, overall, timerState, timerLeft, navLeft,
                 winner, open, launched, errs,
                 elapsed, overhead>>

\* the setTimeout callback: reject(new Error('Timeout'))
TimerFire(r) ==
  /\ timerState[r] = "pending"
  /\ timerLeft[r] = 0
  /\ timerState' = [timerState EXCEPT ![r] = "fired"]
  /\ RaceSettles(r, "timer", MapFailure(TimeoutError))
  /\ UNCHANGED <<incoming, lpc, url, attempt, lastError, caught, title,
                 metaDescription, h1, overall, timerLeft, navLeft, open,
                 launched, errs,
                 elapsed, overhead>>

\* ----------------------------------------------------------- attemptScrape
\* variables no step of attemptScrape touches
Outside == <<incoming, url, timerState, timerLeft, elapsed, overhead>>

\* variables a step inside attemptScrape leaves alone
LoopState == <<attempt, lastError, errs, overall, winner, responses, hpc>>

\* browser.close() takes the attempt's browser out of the open ones
CloseBrowser(opn, a) == opn \ {a}

\* `await playwright.chromium.launch({ headless: true })`
LaunchOK(r) ==
  /\ lpc[r] = "launch"
  /\ lpc' = [lpc EXCEPT ![r] = "newContext"]
  /\ open' = [open EXCEPT ![r] = @ \cup {attempt[r]}]
  /\ launched' = [launched EXCEPT ![r] = @ + 1]
  /\ UNCHANGED <<Outside, LoopState, caught, title, metaDescription, h1,
                 navLeft>>

LaunchFail(r) ==
  /\ lpc[r] = "launch"
  /\ AttemptThrows(r, LaunchError)
  /\ UNCHANGED <<Outside, navLeft, open, launched>>

\* `await browser.newContext(...)`, before the try block
NewContextOK(r) ==
  /\ lpc[r] = "newContext"
  /\ lpc' = [lpc EXCEPT ![r] = "newPage"]
  /\ UNCHANGED <<Outside, LoopState, caught, title, metaDescription, h1,
                 navLeft, open, launched>>

NewContextFail(r) ==
  /\ lpc[r] = "newContext"
  /\ AttemptThrows(r, ContextError)
  /\ UNCHANGED <<Outside, navLeft, open, launched>>

\* NewPageOK passing the global timeout to page.goto
NewPageOKGlobalTimeout(r) ==
  /\ lpc[r] = "newPage"
  /\ lpc' = [lpc EXCEPT ![r] = "goto"]
  /\ navLeft' = [navLeft EXCEPT ![r] = GLOBAL_TIMEOUT_MS]
  /\ UNCHANGED <<Outside, LoopState, caught, title, metaDescription, h1,
                 open, launched>>

\* `await context.newPage()`, before the try block; then page.goto starts
NewPageOK(r) ==
  /\ lpc[r] = "newPage"
  /\ lpc' = [lpc EXCEPT ![r] = "goto"]
  /\ navLeft' = [navLeft EXCEPT ![r] = NAVIGATION_TIMEOUT_MS]
  /\ UNCHANGED <<Outside, LoopState, caught, title, metaDescription, h1,
                 open, launched>>

NewPageFail(r) ==
  /\ lpc[r] = "newPage"
  /\ AttemptThrows(r, PageError)
  /\ UNCHANGED <<Outside, navLeft, open, launched>>

\* an error thrown inside the try block enters the catch clause, which
\* awaits browser.close()
EnterCatch(r, e) ==
  /\ caught' = [caught EXCEPT ![r] = e]
  /\ lpc' = [lpc EXCEPT ![r] = "closeCatch"]

\* `await page.goto(url, { waitUntil: 'networkidle', timeout: ... })`
GotoOK(r) ==
  /\ lpc[r] = "goto"
  /\ lpc' = [lpc EXCEPT ![r] = "title"]
  /\ navLeft' = [navLeft EXCEPT ![r] = 0]
  /\ UNCHANGED <<Outside, LoopState, caught, title, metaDescription, h1,
                 open, launched>>

GotoFail(r) ==
  /\ lpc[r] = "goto"
  /\ EnterCatch(r, NavLoadError)
  /\ navLeft' = [navLeft EXCEPT ![r] = 0]
  /\ UNCHANGED <<Outside, LoopState, title, metaDescription, h1, open,
                 launched>>

GotoTimeout(r) ==
  /\ lpc[r] = "goto"
  /\ navLeft[r] = 0
  /\ EnterCatch(r, NavTimeoutError)
  /\ UNCHANGED <<Outside, LoopState, title, metaDescription, h1, navLeft,
                 open, launched>>

\* `(await page.title()) || null`
TitleOK(r, t) ==
  /\ lpc[r] = "title"
  /\ title' = [title EXCEPT ![r] = IF t = "" THEN Null ELSE t]
  /\ lpc' = [lpc EXCEPT ![r] = "meta"]
  /\ UNCHANGED <<Outside, LoopState, caught, metaDescription, h1, navLeft,
                 open, launched>>

TitleFail(r) ==
  /\ lpc[r] = "title"
  /\ EnterCatch(r, TitleError)
  /\ UNCHANGED <<Outside, LoopState, title, metaDescription, h1, navLeft,
                 open, launched>>

\* `await page.$eval('head > meta...', el => el.getAttribute('content'))
\*    .catch(() => null)`
MetaOK(r, v) ==
  /\ lpc[r] = "meta"
  /\ metaDescription' = [metaDescription EXCEPT ![r] = v]
  /\ lpc' = [lpc EXCEPT ![r] = "h1"]
  /\ UNCHANGED <<Outside, LoopState, caught, title, h1, navLeft, open,
                 launched>>

MetaFail(r) ==
  /\ lpc[r] = "meta"
  /\ metaDescription' = [metaDescription EXCEPT ![r] = Null]
  /\ lpc' = [lpc EXCEPT ![r] = "h1"]
  /\ UNCHANGED <<Outside, LoopState, caught, title, h1, navLeft, open,
                 launched>>

\* `await page.$eval('h1', el => el.textContent?.trim()).catch(() => null)`
H1OK(r, v) ==
  /\ lpc[r] = "h1"
  /\ h1' = [h1 EXCEPT ![r] = v]
  /\ lpc' = [lpc EXCEPT ![r] = "closeTry"]
  /\ UNCHANGED <<Outside, LoopState, caught, title, metaDescription, navLeft,
                 open, launched>>

H1Fail(r) ==
  /\ lpc[r] = "h1"
  /\ h1' = [h1 EXCEPT ![r] = Null]
  /\ lpc' = [lpc EXCEPT ![r] = "closeTry"]
  /\ UNCHANGED <<Outside, LoopState, caught, title, metaDescription, navLeft,
                 open, launched>>

\* CloseTryOK on a browser shared by all requests
CloseTryOKSharedBrowser(r) ==
  /\ lpc[r] = "closeTry"
  /\ open' = [q \in Reqs |-> CloseBrowser(open[q], attempt[r])]
  /\ Resolve(r, [title |-> title[r], metaDescription |-> metaDescription[r],
                 h1 |-> h1[r], status |-> 200])
  /\ UNCHANGED <<Outside, caught, title, metaDescription, h1, navLeft,
                 launched>>

\* `await browser.close()` in the try block, then
\* `return { title, metaDescription, h1, status: 200 }`
CloseTryOK(r) ==
  /\ lpc[r] = "closeTry"
  /\ open' = [open EXCEPT ![r] = CloseBrowser(@, attempt[r])]
  /\ Resolve(r, [title |-> title[r], metaDescription |-> metaDescription[r],
                 h1 |-> h1[r], status |-> 200])
  /\ UNCHANGED <<Outside, caught, title, metaDescription, h1, navLeft,
                 launched>>

\* browser.close() rejects in the try block: control enters the catch
\* clause; the browser may or may not have gone away
CloseTryFail(r, gone) ==
  /\ lpc[r] = "closeTry"
  /\ EnterCatch(r, CloseError)
  /\ open' = [open EXCEPT ![r] =
                IF gone THEN CloseBrowser(@, attempt[r]) ELSE @]
  /\ UNCHANGED <<Outside, LoopState, title, metaDescription, h1, navLeft,
                 launched>>

\* `await browser.close(); throw err;` in the catch clause
CloseCatchOK(r) ==
  /\ lpc[r] = "closeCatch"
  /\ open' = [open EXCEPT ![r] = CloseBrowser(@, attempt[r])]
  /\ AttemptThrows(r, caught[r])
  /\ UNCHANGED <<Outside, navLeft, launched>>

\* browser.close() rejects in the catch clause: its error is the one thrown
CloseCatchFail(r, gone) ==
  /\ lpc[r] = "closeCatch"
  /\ open' = [open EXCEPT ![r] =
                IF gone THEN CloseBrowser(@, attempt[r]) ELSE @]
  /\ AttemptThrows(r, CloseError)
  /\ UNCHANGED <<Outside, navLeft, launched>>

\* -------------------------------------------------------------------- time
Countdown(ms) == IF ms > TickMs THEN ms - TickMs ELSE 0

\* a counter of elapsed time that stops at `cap`
CountUp(ms, cap) == IF ms + TickMs < cap THEN ms + TickMs ELSE cap

\* attempt 1's time outside page.goto is counted up to the slack the deadline
\* leaves after one navigation timeout
MaxOverheadMs == GLOBAL_TIMEOUT_MS - NAVIGATION_TIMEOUT_MS

TimerRunning(r) == timerState[r] = "pending"
NavRunning(r) == lpc[r] = "goto"

\* the handler awaits import('playwright') and its wait is still counted
ImportRunning(r) == hpc[r] = "import" /\ elapsed[r] < MaxImportMs

\* the handler awaits the race: no response yet
RaceRunning(r) == hpc[r] = "race"

\* attempt 1 is in launch, newContext, newPage, an extraction or a close
OverheadRunning(r) ==
  /\ attempt[r] = 1
  /\ lpc[r] \notin {"none", "settled", "goto"}

\* TickMs elapse; a due timer or navigation timeout is handled first
Tick ==
  /\ \E r \in Reqs : TimerRunning(r) \/ NavRunning(r) \/ ImportRunning(r)
  /\ \A r \in Reqs : TimerRunning(r) => timerLeft[r] > 0
  /\ \A r \in Reqs : NavRunning(r) => navLeft[r] > 0
  /\ timerLeft' = [r \in Reqs |->
                     IF TimerRunning(r) THEN Countdown(timerLeft[r])
                                        ELSE timerLeft[r]]
  /\ navLeft' = [r \in Reqs |->
                   IF NavRunning(r) THEN Countdown(navLeft[r])
                                    ELSE navLeft[r]]
  /\ elapsed' = [r \in Reqs |->
                   IF ImportRunning(r)
                     THEN CountUp(elapsed[r], MaxImportMs)
                     ELSE IF RaceRunning(r) THEN elapsed[r] + TickMs
                                            ELSE elapsed[r]]
  /\ overhead' = [r \in Reqs |->
                    IF OverheadRunning(r)
                      THEN CountUp(overhead[r], MaxOverheadMs)
                      ELSE overhead[r]]
  /\ UNCHANGED <<incoming, hpc, lpc, url, attempt, lastError, caught, title,
                 metaDescription, h1, overall, timerState, winner, responses,
                 open, launched, errs>>

\* ----------------------------------------------------------- specification
Next ==
  \/ \E r \in Reqs, u \in Urls : Receive(r, u)
  \/ \E r \in Reqs : ImportOK(r)
  \/ \E r \in Reqs : ImportFailUnhandled(r)
  \/ \E r \in Reqs : ImportFailForwarded(r)
  \/ \E r \in Reqs : TimerFire(r)
  \/ \E r \in Reqs : LaunchOK(r)
  \/ \E r \in Reqs : LaunchFail(r)
  \/ \E r \in Reqs : NewContextOK(r)
  \/ \E r \in Reqs : NewContextFail(r)
  \/ \E r \in Reqs : NewPageOK(r)
  \/ \E r \in Reqs : NewPageFail(r)
  \/ \E r \in Reqs : GotoOK(r)
  \/ \E r \in Reqs : GotoFail(r)
  \/ \E r \in Reqs : GotoTimeout(r)
  \/ \E r \in Reqs, t \in Titles : TitleOK(r, t)
  \/ \E r \in Reqs : TitleFail(r)
  \/ \E r \in Reqs : MetaFail(r)
  \/ \E r \in Reqs, v \in Metas : MetaOK(r, v)
  \/ \E r \in Reqs, v \in Headings : H1OK(r, v)
  \/ \E r \in Reqs : H1Fail(r)
  \/ \E r \in Reqs : CloseTryOK(r)
  \/ \E r \in Reqs, gone \in BOOLEAN : CloseTryFail(r, gone)
  \/ \E r \in Reqs : CloseCatchOK(r)
  \/ \E r \in Reqs, gone \in BOOLEAN : CloseCatchFail(r, gone)
  \/ Tick

Spec == Init /\ [][Next]_vars

\* the engine settles every operation it was asked for, timers fire and time
\* passes
EngineStep(r) ==
  \/ ImportOK(r) \/ ImportFailUnhandled(r) \/ ImportFailForwarded(r)
  \/ LaunchOK(r) \/ LaunchFail(r)
  \/ NewContextOK(r) \/ NewContextFail(r)
  \/ NewPageOK(r) \/ NewPageFail(r)
  \/ GotoOK(r) \/ GotoFail(r) \/ GotoTimeout(r)
  \/ (\E t \in Titles : TitleOK(r, t)) \/ TitleFail(r)
  \/ (\E v \in Metas : MetaOK(r, v)) \/ MetaFail(r)
  \/ (\E v \in Headings : H1OK(r, v)) \/ H1Fail(r)
  \/ CloseTryOK(r) \/ (\E gone \in BOOLEAN : CloseTryFail(r, gone))
  \/ CloseCatchOK(r) \/ (\E gone \in BOOLEAN : CloseCatchFail(r, gone))

FairSpec ==
  /\ Spec
  /\ WF_vars(Tick)
  /\ \A r \in Reqs : WF_vars(\E u \in Urls : Receive(r, u))
  /\ \A r \in Reqs : WF_vars(TimerFire(r))
  /\ \A r \in Reqs : WF_vars(EngineStep(r))

\* ------------------------------------------------------ concurrent requests
Min(S) == CHOOSE x \in S : \A y \in S : x <= y

\* the running countdowns: deadline timers and navigation timeouts
DueIn ==
  {timerLeft[r] : r \in {q \in Reqs : TimerRunning(q)}}
    \cup {navLeft[r] : r \in {q \in Reqs : NavRunning(q)}}

CountUpBy(ms, d, cap) == IF ms + d < cap THEN ms + d ELSE cap

\* time passes until the next timer or navigation timeout is due
Advance ==
  /\ DueIn # {}
  /\ 0 \notin DueIn
  /\ LET d == Min(DueIn) IN
       /\ timerLeft' = [r \in Reqs |->
                          IF TimerRunning(r) THEN timerLeft[r] - d
                                             ELSE timerLeft[r]]
       /\ navLeft' = [r \in Reqs |->
                        IF NavRunning(r) THEN navLeft[r] - d
                                         ELSE navLeft[r]]
       /\ elapsed' = [r \in Reqs |->
                        IF RaceRunning(r) THEN elapsed[r] + d
                                          ELSE elapsed[r]]
       /\ overhead' = [r \in Reqs |->
                         IF OverheadRunning(r)
                           THEN CountUpBy(overhead[r], d, MaxOverheadMs)
                           ELSE overhead[r]]
  /\ UNCHANGED <<incoming, hpc, lpc, url, attempt, lastError, caught, title,
                 metaDescription, h1, overall, timerState, winner, responses,
                 open, launched, errs>>

\* the urls of the concurrent requests: one invalid, one valid
UrlsTwo == { [present |-> TRUE, parses |-> TRUE, scheme |-> "ftp"],
             [present |-> TRUE, parses |-> TRUE, scheme |-> "https"] }

\* two requests in flight: the engine fails in launch, context creation,
\* navigation and title read, the page yields one value per field, and time
\* moves from one due timer to the next
NextTwo ==
  \/ \E r \in Reqs, u \in UrlsTwo : Receive(r, u)
  \/ \E r \in Reqs : ImportOK(r)
  \/ \E r \in Reqs : TimerFire(r)
  \/ \E r \in Reqs : LaunchOK(r)
  \/ \E r \in Reqs : LaunchFail(r)
  \/ \E r \in Reqs : NewContextOK(r)
  \/ \E r \in Reqs : NewContextFail(r)
  \/ \E r \in Reqs : NewPageOK(r)
  \/ \E r \in Reqs : GotoOK(r)
  \/ \E r \in Reqs : GotoFail(r)
  \/ \E r \in Reqs : GotoTimeout(r)
  \/ \E r \in Reqs : TitleOK(r, "Example Domain")
  \/ \E r \in Reqs : TitleFail(r)
  \/ \E r \in Reqs : MetaFail(r)
  \/ \E r \in Reqs : H1Fail(r)
  \/ \E r \in Reqs : CloseTryOK(r)
  \/ \E r \in Reqs : CloseCatchOK(r)
  \/ Advance

InitTwo == InitWith(Reqs)

SpecTwo == InitTwo /\ [][NextTwo]_vars

\* ------------------------------------------------------------------ claims
Valid(r) == hpc[r] # "idle" /\ isValidHttpUrl(url[r])
Sent(r) == responses[r] # <<>>
Resp(r) == responses[r][1]
InAttempt(r) == lpc[r] \notin {"none", "settled"}
Timeout504 == Response(504, "Timeout", <<>>, NoResult)

\* C1: a valid request is answered 504 only if the deadline timer settled
\* the race; when the retry loop rejected first (both attempts failed before
\* the timer fired) the response is 500, whatever the last error is.
C1_Only504OnDeadline ==
  \A r \in Reqs :
    (Valid(r) /\ Sent(r)) =>
      /\ (Resp(r).status = 504 => winner[r] = "timer")
      /\ ((winner[r] = "overall" /\ overall[r].state = "rejected")
            => Resp(r).status = 500)

\* C2: every browser that is open belongs to the attempt that is running:
\* once an attempt has returned or thrown, no browser it launched is open.
C2_SessionReleasedWithAttempt ==
  \A r \in Reqs :
    \A a \in open[r] : InAttempt(r) /\ a = attempt[r]

\* C3: every received request is eventually answered, and no request is
\* ever answered twice.
C3_ExactlyOneResponse ==
  \A r \in Reqs :
    /\ [](hpc[r] # "idle" => <>(Len(responses[r]) = 1))
    /\ [](Len(responses[r]) <= 1)

\* C4: the first of overallPromise and timeoutPromise to settle decides the
\* response; no later step changes the winner or the response, or writes a
\* second response.
C4_LoserDiscarded ==
  [][\A r \in Reqs :
       /\ (winner[r] # "none" => winner'[r] = winner[r])
       /\ (Sent(r) => responses'[r] = responses[r])
       /\ ((winner[r] = "none" /\ winner'[r] # "none")
             => (~Sent(r) /\ Len(responses'[r]) = 1))]_vars

C4_Witness ==
  \E r \in Reqs :
    /\ winner[r] = "timer"
    /\ overall[r].state = "rejected"
    /\ responses[r] = <<Timeout504>>

\* C5: when the deadline timer settles the race the response is 504
\* {error: 'Timeout'}, in attempt 1 or 2, whatever the attempt does later.
C5_DeadlineGives504 ==
  \A r \in Reqs :
    winner[r] = "timer" => responses[r] = <<Timeout504>>

C5_Witness ==
  \E r \in Reqs :
    /\ winner[r] = "timer"
    /\ Len(errs[r]) = 1
    /\ overall[r].state = "resolved"
    /\ responses[r] = <<Timeout504>>

\* C6: attempts are sequential and bounded: a running attempt is attempt 1
\* or 2, attempt 2 runs only after attempt 1's error was caught, and a
\* request never has two browsers open.
C6_SequentialBounded ==
  \A r \in Reqs :
    /\ (InAttempt(r) => attempt[r] \in 1..MAX_ATTEMPTS)
    /\ (InAttempt(r) => Len(errs[r]) = attempt[r] - 1)
    /\ launched[r] <= MAX_ATTEMPTS
    /\ Cardinality(open[r]) <= 1

\* C7: when attempt 1 succeeds the loop resolves with it and stops: attempt
\* 2 is never started and exactly one browser was launched and closed.
C7_FirstSuccessStops ==
  \A r \in Reqs :
    (overall[r].state = "resolved" /\ errs[r] = <<>>) =>
      /\ attempt[r] = 1
      /\ lpc[r] = "settled"
      /\ launched[r] = 1
      /\ open[r] = {}

C7_Witness ==
  \E r \in Reqs :
    /\ overall[r].state = "resolved"
    /\ errs[r] = <<>>
    /\ timerState[r] = "fired"
    /\ launched[r] = 1

\* C8: the response is 200 exactly when an attempt succeeded before the
\* deadline fired, its body is that attempt's result with status 200, and
\* when attempt 1 failed and attempt 2 succeeded the sessions of the two
\* attempts were created and released: two attempts ran, at most two
\* browsers were launched and none of them is open.
C8_SuccessIs200 ==
  \A r \in Reqs :
    (Valid(r) /\ Sent(r)) =>
      /\ (Resp(r).status = 200
            <=> (winner[r] = "overall" /\ overall[r].state = "resolved"))
      /\ (Resp(r).status = 200 =>
            /\ Resp(r).data = overall[r].result
            /\ Resp(r).data = [title |-> title[r],
                               metaDescription |-> metaDescription[r],
                               h1 |-> h1[r], status |-> 200])
      /\ ((Resp(r).status = 200 /\ Len(errs[r]) = 1) =>
            (attempt[r] = 2 /\ launched[r] <= 2 /\ open[r] = {}))

\* C9: when both attempts fail the loop rejects with the second attempt's
\* error, not the first, and a 500 answer to that rejection carries the
\* second error's message as details.
C9_LastErrorWins ==
  \A r \in Reqs :
    overall[r].state = "rejected" =>
      /\ Len(errs[r]) = 2
      /\ lastError[r] = errs[r][2]
      /\ overall[r].err = errs[r][2]
      /\ ((winner[r] = "overall" /\ Resp(r).status = 500) =>
            Resp(r).details = errs[r][2].message)

C9_Witness ==
  \E r \in Reqs :
    /\ overall[r].state = "rejected"
    /\ winner[r] = "overall"
    /\ Resp(r).status = 500
    /\ errs[r][1] # errs[r][2]

\* C10: a request whose url is missing or invalid is answered 400
\* {error: 'Invalid URL'} and nothing else is ever started for it: no
\* import, no attempt, no browser, no deadline timer.
C10_InvalidUrl400 ==
  \A r \in Reqs :
    (hpc[r] # "idle" /\ ~isValidHttpUrl(url[r])) =>
      /\ responses[r] = <<Response(400, "Invalid URL", <<>>, NoResult)>>
      /\ hpc[r] = "done"
      /\ lpc[r] = "none"
      /\ attempt[r] = 0
      /\ launched[r] = 0
      /\ open[r] = {}
      /\ timerState[r] = "none"
      /\ overall[r] = Pending

C10_Witness ==
  \E r \in Reqs :
    /\ hpc[r] = "done"
    /\ url[r].present
    /\ url[r].scheme = "ftp"
    /\ Resp(r).status = 400

\* C11: from the moment a request is answered 200, 500 or 504, none of its
\* browsers is open and none is launched afterwards.
C11_ReleasedAtResponse ==
  /\ [](\A r \in Reqs :
          (Sent(r) /\ Resp(r).status \in {200, 500, 504}) => open[r] = {})
  /\ [][\A r \in Reqs :
          (Sent(r) /\ Resp(r).status \in {200, 500, 504})
            => launched'[r] = launched[r]]_vars

\* C12: after a successful navigation every step of the title read, the meta
\* query and the h1 query leads on towards the successful return: none enters
\* the catch clause or records an error, and a missing title is null.
Extracting == {"title", "meta", "h1"}

C12_ExtractionNeverFails ==
  [][\A r \in Reqs :
       (lpc[r] \in Extracting /\ lpc'[r] # lpc[r]) =>
         /\ lpc'[r] \in Extracting \cup {"closeTry"}
         /\ caught'[r] = caught[r]
         /\ errs'[r] = errs[r]
         /\ attempt'[r] = attempt[r]
         /\ title'[r] # ""]_vars

\* C13: a valid request is answered no later than GLOBAL_TIMEOUT_MS after the
\* handler began, the wait for the engine import included.
C13_AnsweredWithinDeadline ==
  \A r \in Reqs :
    (Valid(r) /\ Sent(r)) => elapsed[r] <= GLOBAL_TIMEOUT_MS

\* C14: the step in which the deadline fires changes nothing of the retry
\* loop (attempt, lastError, position, locals, open browsers), and the loop
\* goes on as without it: when attempt 1 fails after the deadline has fired,
\* attempt 2 is started.
LoopVars(r) ==
  <<lpc[r], attempt[r], lastError[r], caught[r], title[r],
    metaDescription[r], h1[r], overall[r], navLeft[r], open[r], launched[r],
    errs[r]>>

C14_DeadlineOnlyResponse ==
  [][\A r \in Reqs :
       /\ (timerState[r] = "pending" /\ timerState'[r] = "fired")
            => LoopVars(r)' = LoopVars(r)
       /\ (timerState[r] = "fired" /\ attempt[r] = 1
             /\ Len(errs'[r]) = Len(errs[r]) + 1)
            => (attempt'[r] = 2 /\ lpc'[r] = "launch"
                  /\ overall'[r].state = "pending")]_vars

C14_Witness ==
  \E r \in Reqs :
    /\ timerState[r] = "fired"
    /\ responses[r] = <<Timeout504>>
    /\ attempt[r] = 1
    /\ lpc[r] = "goto"
    /\ open[r] = {1}

\* C16: the deadline never fires while attempt 1 is in progress unless
\* attempt 1 has spent at least GLOBAL_TIMEOUT_MS - NAVIGATION_TIMEOUT_MS
\* outside page.goto: with less than that in setup, extraction and close,
\* attempt 1 is over before the deadline and no 504 is sent during it.
C16_FirstAttemptBeatsDeadline ==
  \A r \in Reqs :
    (timerState[r] = "fired" /\ attempt[r] = 1 /\ InAttempt(r))
      => overhead[r] >= GLOBAL_TIMEOUT_MS - NAVIGATION_TIMEOUT_MS

C16_Witness ==
  \E r \in Reqs :
    /\ errs[r] = <<NavTimeoutError>>
    /\ overhead[r] > 0
    /\ overhead[r] < GLOBAL_TIMEOUT_MS - NAVIGATION_TIMEOUT_MS
    /\ timerState[r] = "pending"
    /\ timerLeft[r] > 0

\* C15: concurrent requests are independent: a step that changes one
\* request's state (position, attempt, lastError, promises, browsers,
\* response) changes nothing of any other request, clocks included, and a
\* request's response is the one its own race outcome maps to.
ReqState(r) ==
  <<hpc[r], lpc[r], url[r], attempt[r], lastError[r], caught[r], title[r],
    metaDescription[r], h1[r], overall[r], timerState[r], winner[r],
    responses[r], open[r], launched[r], errs[r]>>

ReqClocks(r) == <<timerLeft[r], navLeft[r], elapsed[r], overhead[r]>>

OwnOutcome(r) ==
  IF winner[r] = "timer" THEN MapFailure(TimeoutError)
  ELSE IF overall[r].state = "resolved" THEN MapSuccess(overall[r].result)
  ELSE MapFailure(overall[r].err)

C15_RequestsIndependent ==
  /\ [](\A r \in Reqs : winner[r] # "none" => responses[r] = <<OwnOutcome(r)>>)
  /\ [][\A r \in Reqs : \A q \in Reqs \ {r} :
          ReqState(r)' # ReqState(r) =>
            /\ ReqState(q)' = ReqState(q)
            /\ ReqClocks(q)' = ReqClocks(q)]_vars

C15_Witness ==
  /\ attempt[1] = 2 /\ InAttempt(1) /\ open[1] = {2}
  /\ attempt[2] = 1 /\ InAttempt(2) /\ open[2] = {1}
  /\ lastError[1] = NavLoadError
  /\ lastError[2] = NullError
  /\ timerState[1] = "fired" /\ responses[1] = <<Timeout504>>
  /\ timerState[2] = "pending" /\ responses[2] = <<>>

====
